---- MODULE Spec2Model ----
(***************************************************************************)
(* directory-manager: entity lifecycle and membership engine.              *)
(*                                                                         *)
(* The directory is modelled as the set of objects the PIRG module reads   *)
(* and writes: the per-entity containers, the primary / admins / pi groups *)
(* and the sub-groups (each a gidNumber and a member set), and the two     *)
(* top-level roster groups.  The cephfs and cephs3 modules are textual     *)
(* copies of the PIRG module (only the roster demotion at the end of       *)
(* RemoveMember is commented out there), so the PIRG code is the one       *)
(* translated.                                                             *)
(***************************************************************************)
EXTENDS Integers, FiniteSets, Sequences, TLC

\* ------------------------------------------------------------------ bounds
\* Configured numeric-id range (cfg.LDAPMinGid, cfg.LDAPMaxGid), kept small.
MinGid == 3
MaxGid == 9

\* ------------------------------------------------------------- input sets
Entities == {"acme", "beta"}
Users == {"alice", "bob"}
Subs == {"s1", "s2"}

\* the two invocations of the concurrent runs
Procs == {"p1", "p2"}

\* Highest gidNumber among the groups that exist under the groups base DN
\* before the tool is first run (0: none carries a gidNumber).
ForeignGids == {0, MinGid - 1, MinGid}

\* The groups of a PIRG, addressed as <<entity, role>>; a software group,
\* which lives under its own base DN, is addressed as <<name, "software">>.
PirgRoles == {"primary", "admins", "pi"} \cup Subs
Roles == PirgRoles \cup {"software"}
Groups == Entities \X Roles
PirgGroups == Entities \X PirgRoles

getPIRGDN(e) == <<e, "primary">>
getPIRGAdminsGroupDN(e) == <<e, "admins">>
getPIRGPIGroupDN(e) == <<e, "pi">>
getPIRGSubgroupDN(e, s) == <<e, s>>

VARIABLES
    dir,      \* the directory: a record of
              \*   ou[e]         the entity container OU=e exists
              \*   groupsOU[e]   the sub-group container OU=Groups,OU=e exists
              \*   gidNumber[g]  the group's gidNumber, 0 when g does not exist
              \*   member[g]     the group's member attribute
              \*   topLevelUsers, topLevelAdmins   members of the two roster groups
              \*   foreignGid    highest gidNumber of the groups that were there before
    last,     \* the call that produced this state: its name, what it returned,
              \* the gidNumber it was handed by GetNextGidNumber (0: none) and
              \* whether it logged "Multiple existing PIs found"
    lastGid,  \* the value GetNextGidNumber returned most recently (0: none)
    prevGid,  \* the value it returned the time before (0: none)
    proc,     \* two create invocations running at the same time: for each its
              \* position in PirgCreate, its arguments and its local gidNumber
    nm,       \* a name argument taken as text, character by character:
              \*   arg    the short name given on the command line
              \*   cn     the group name the command derived from it
              \*   short  the short name read back from cn
    cli       \* how the process of the last command ended:
              \*   exit    its exit status
              \*   closed  whether the deferred Close of the connection ran

vars == <<dir, last, lastGid, prevGid, proc, nm, cli>>

\* what a call hands back: the directory it leaves and its result
Ret(d, res) == [dir |-> d, res |-> res, gid |-> 0, warn |-> FALSE]

\* --------------------------------------------------- directory primitives
DNExists(d, g) == d.gidNumber[g] # 0

UserInGroup(d, g, u) == u \in d.member[g]

AddUserToGroup(d, g, u) == [d EXCEPT !.member[g] = @ \cup {u}]

RemoveUserFromGroup(d, g, u) == [d EXCEPT !.member[g] = @ \ {u}]

CreateOU(d, e) == [d EXCEPT !.ou[e] = TRUE]

CreateGroupsOU(d, e) == [d EXCEPT !.groupsOU[e] = TRUE]

\* CreateGroup skips a DN that exists already
CreateGroup(d, g, gid) ==
    IF DNExists(d, g) THEN d ELSE [d EXCEPT !.gidNumber[g] = gid, !.member[g] = {}]

DeleteGroup(d, g) == [d EXCEPT !.gidNumber[g] = 0, !.member[g] = {}]

\* subtree delete of OU=e: the containers and every group below them
\* variant of DeleteOURecursively that leaves the sub-groups behind
DeleteOUOneLevel(d, e) ==
    [d EXCEPT !.ou[e] = FALSE,
              !.gidNumber = [g \in Groups |->
                               IF g[1] = e /\ g[2] \in PirgRoles \ Subs THEN 0 ELSE @[g]],
              !.member = [g \in Groups |->
                               IF g[1] = e /\ g[2] \in PirgRoles \ Subs THEN {} ELSE @[g]]]

\* variant of DeleteOURecursively that deletes below the base DN of all
\* PIRGs
DeleteOURecursivelyFromBase(d, e) ==
    [d EXCEPT !.ou = [x \in Entities |-> FALSE],
              !.groupsOU = [x \in Entities |-> FALSE],
              !.gidNumber = [g \in Groups |-> IF g[2] \in PirgRoles THEN 0 ELSE @[g]],
              !.member = [g \in Groups |-> IF g[2] \in PirgRoles THEN {} ELSE @[g]]]

DeleteOURecursively(d, e) ==
    [d EXCEPT !.ou[e] = FALSE,
              !.groupsOU[e] = FALSE,
              !.gidNumber = [g \in Groups |-> IF g[1] = e /\ g[2] \in PirgRoles THEN 0 ELSE @[g]],
              !.member = [g \in Groups |-> IF g[1] = e /\ g[2] \in PirgRoles THEN {} ELSE @[g]]]

\* getUserDN finds an account with that sAMAccountName: the accounts of the
\* directory are Users, and "ghost" is a name without an account
getUserDNFound(u) == u \in Users

\* variant of findPIRGDN that never finds the primary group
findPIRGDNNeverFound(d, e) == FALSE

findPIRGDN(d, e) == DNExists(d, getPIRGDN(e))

\* ---------------------------------------------------------- GID allocator
Max(S) == CHOOSE x \in S : \A y \in S : y <= x

\* highestGid after the scan loop of GetNextGidNumber
HighestGid(d) == Max({0, d.foreignGid} \cup {d.gidNumber[g] : g \in Groups})

\* variant of GetNextGidNumber that hands out highestGid itself
GetNextGidNumberNoIncrement(d) ==
    LET highestGid == HighestGid(d) IN
    IF highestGid >= MaxGid THEN [err |-> "ErrNoAvailableGid", gid |-> 0]
    ELSE IF highestGid < MinGid THEN [err |-> "ErrBelowMinGid", gid |-> 0]
    ELSE [err |-> "ok", gid |-> highestGid]

\* GetNextGidNumber: the value returned, or the error
GetNextGidNumber(d) ==
    LET highestGid == HighestGid(d) IN
    IF highestGid >= MaxGid THEN [err |-> "ErrNoAvailableGid", gid |-> 0]
    ELSE LET nextGid == highestGid + 1 IN
         IF nextGid < MinGid THEN [err |-> "ErrBelowMinGid", gid |-> 0]
         ELSE [err |-> "ok", gid |-> nextGid]

\* ---------------------------------------------------------- roster groups
addUserToTopLevelUsersGroup(d, u) == [d EXCEPT !.topLevelUsers = @ \cup {u}]

addUsertoTopLevelAdminsGroup(d, u) == [d EXCEPT !.topLevelAdmins = @ \cup {u}]

removeUserFromTopLevelUsersGroup(d, u) == [d EXCEPT !.topLevelUsers = @ \ {u}]

removeUserFromTopLevelAdminsGroup(d, u) == [d EXCEPT !.topLevelAdmins = @ \ {u}]

\* memberOf holds a group whose name starts with the PIRG prefix
userInAnyPIRG(d, u) == \E g \in PirgGroups : UserInGroup(d, g, u)

\* variant of userIsAdminInAnyPIRG that never finds an admins group
userIsAdminInAnyPIRGNever(d, u) == FALSE

\* for every primary group in memberOf: is the user in that PIRG's admins group
userIsAdminInAnyPIRG(d, u) ==
    \E e \in Entities :
        /\ UserInGroup(d, getPIRGDN(e), u)
        /\ UserInGroup(d, getPIRGAdminsGroupDN(e), u)

\* ------------------------------------------------------ entity operations
\* variant of removeExistingPIs that leaves the existing PIs in the group
removeExistingPIsSkipped(d, e) == d

\* PirgSetPI, the loop that empties the pi group
removeExistingPIs(d, e) == [d EXCEPT !.member[getPIRGPIGroupDN(e)] = {}]

\* variant of PirgSetPI that takes a user who is already in the primary group
\* for one it has already made the PI
PirgSetPISkipsMembers(d, e, u) ==
    LET pirgDN == getPIRGDN(e)
        pirgPIGroupDN == getPIRGPIGroupDN(e)
        pirgAdminsGroupDN == getPIRGAdminsGroupDN(e)
    IN  IF ~DNExists(d, pirgPIGroupDN) THEN Ret(d, "ErrLDAP")
        ELSE IF UserInGroup(d, pirgDN, u) THEN Ret(d, "ok")
        ELSE
        LET d1 == removeExistingPIs(d, e)
            d2 == AddUserToGroup(d1, pirgDN, u)
            d3 == AddUserToGroup(d2, pirgPIGroupDN, u)
            d4 == AddUserToGroup(d3, pirgAdminsGroupDN, u)
        IN  IF ~DNExists(d1, pirgDN) THEN Ret(d1, "ErrLDAP")
            ELSE IF ~DNExists(d3, pirgAdminsGroupDN) THEN Ret(d3, "ErrLDAP")
            ELSE Ret(d4, "ok")

\* variant of PirgSetPI that also takes the existing PIs out of the admins
\* group
PirgSetPIDemotesExisting(d, e, u) ==
    LET pirgPIGroupDN == getPIRGPIGroupDN(e)
        pirgAdminsGroupDN == getPIRGAdminsGroupDN(e)
        existingPIs == d.member[pirgPIGroupDN] \ {u}
        d1 == removeExistingPIs(d, e)
        d2 == AddUserToGroup(d1, getPIRGDN(e), u)
        d3 == AddUserToGroup(d2, pirgPIGroupDN, u)
        d4 == AddUserToGroup(d3, pirgAdminsGroupDN, u)
    IN  IF ~DNExists(d, pirgPIGroupDN) THEN Ret(d, "ErrLDAP")
        ELSE Ret([d4 EXCEPT !.member[pirgAdminsGroupDN] = @ \ existingPIs], "ok")

PirgSetPI(d, e, u) ==
    LET pirgDN == getPIRGDN(e)
        pirgPIGroupDN == getPIRGPIGroupDN(e)
        pirgAdminsGroupDN == getPIRGAdminsGroupDN(e)
    IN  IF ~getUserDNFound(u) THEN Ret(d, "ErrUserNotFound")
        ELSE IF ~DNExists(d, pirgPIGroupDN) THEN Ret(d, "ErrLDAP")    \* GetGroupMemberDNs
        ELSE
        LET warn == Cardinality(d.member[pirgPIGroupDN]) > 1
            d1 == removeExistingPIs(d, e)
            d2 == AddUserToGroup(d1, pirgDN, u)
            d3 == AddUserToGroup(d2, pirgPIGroupDN, u)
            d4 == AddUserToGroup(d3, pirgAdminsGroupDN, u)
        IN  IF ~DNExists(d1, pirgDN) THEN [Ret(d1, "ErrLDAP") EXCEPT !.warn = warn]
            ELSE IF ~DNExists(d3, pirgAdminsGroupDN)
                 THEN [Ret(d3, "ErrLDAP") EXCEPT !.warn = warn]
            ELSE [Ret(d4, "ok") EXCEPT !.warn = warn]

\* PirgSetPI when one of its AddUserToGroup requests comes back with an
\* error: the first (k = 1, the existing PIs are already removed), the
\* second (k = 2) or the third (k = 3)
PirgSetPIStopped(d, e, u, k) ==
    LET d1 == removeExistingPIs(d, e)
        d2 == AddUserToGroup(d1, getPIRGDN(e), u)
        d3 == AddUserToGroup(d2, getPIRGPIGroupDN(e), u)
        warn == Cardinality(d.member[getPIRGPIGroupDN(e)]) > 1
    IN  [Ret(IF k = 1 THEN d1 ELSE IF k = 2 THEN d2 ELSE d3, "ErrLDAP")
            EXCEPT !.warn = warn]

\* variant of PirgAddMember without the check for an existing membership
PirgAddMemberUnchecked(d, e, u) ==
    LET pirgDN == getPIRGDN(e)
    IN  IF ~DNExists(d, pirgDN) THEN Ret(d, "ErrLDAP")
        ELSE Ret(addUserToTopLevelUsersGroup(AddUserToGroup(d, pirgDN, u), u), "ok")

PirgAddMember(d, e, u) ==
    LET pirgDN == getPIRGDN(e)
    IN  IF ~getUserDNFound(u) THEN Ret(d, "ErrUserNotFound")
        ELSE IF ~DNExists(d, pirgDN) THEN Ret(d, "ErrLDAP")             \* UserInGroup
        ELSE IF UserInGroup(d, pirgDN, u) THEN Ret(d, "ok")
        ELSE Ret(addUserToTopLevelUsersGroup(AddUserToGroup(d, pirgDN, u), u), "ok")

\* variant of PirgAddAdmin without the check that the user is in the PIRG
PirgAddAdminUnchecked(d, e, u) ==
    LET adminGroupDN == getPIRGAdminsGroupDN(e)
    IN  IF ~findPIRGDN(d, e) THEN Ret(d, "ErrNotFound")
        ELSE IF ~DNExists(d, adminGroupDN) THEN Ret(d, "ErrLDAP")
        ELSE IF UserInGroup(d, adminGroupDN, u) THEN Ret(d, "ok")
        ELSE Ret(addUsertoTopLevelAdminsGroup(AddUserToGroup(d, adminGroupDN, u), u), "ok")

PirgAddAdmin(d, e, u) ==
    LET pirgDN == getPIRGDN(e)
        adminGroupDN == getPIRGAdminsGroupDN(e)
    IN  IF ~getUserDNFound(u) THEN Ret(d, "ErrUserNotFound")
        ELSE IF ~findPIRGDN(d, e) THEN Ret(d, "ErrNotFound")
        ELSE IF ~UserInGroup(d, pirgDN, u) THEN Ret(d, "ErrNotAMember")
        ELSE IF ~DNExists(d, adminGroupDN) THEN Ret(d, "ErrLDAP")  \* UserInGroup
        ELSE IF UserInGroup(d, adminGroupDN, u) THEN Ret(d, "ok")
        ELSE Ret(addUsertoTopLevelAdminsGroup(AddUserToGroup(d, adminGroupDN, u), u), "ok")

\* variant of PirgRemoveAdmin without the check that the user is an admin
PirgRemoveAdminUnchecked(d, e, u) ==
    LET adminGroupDN == getPIRGAdminsGroupDN(e)
    IN  IF ~DNExists(d, adminGroupDN) THEN Ret(d, "ErrLDAP")
        ELSE
        LET d1 == RemoveUserFromGroup(d, adminGroupDN, u)
        IN  IF ~userIsAdminInAnyPIRG(d1, u)
            THEN Ret(removeUserFromTopLevelAdminsGroup(d1, u), "ok")
            ELSE Ret(d1, "ok")

PirgRemoveAdmin(d, e, u) ==
    LET adminGroupDN == getPIRGAdminsGroupDN(e)
    IN  IF ~getUserDNFound(u) THEN Ret(d, "ErrUserNotFound")
        ELSE IF ~DNExists(d, adminGroupDN) THEN Ret(d, "ErrLDAP")       \* UserInGroup
        ELSE IF ~UserInGroup(d, adminGroupDN, u) THEN Ret(d, "ok")
        ELSE
        LET d1 == RemoveUserFromGroup(d, adminGroupDN, u)
        IN  IF ~userIsAdminInAnyPIRG(d1, u)
            THEN Ret(removeUserFromTopLevelAdminsGroup(d1, u), "ok")
            ELSE Ret(d1, "ok")

\* variant of userIsPI that never recognises the PI
userIsPIAlwaysFalse(d, e, u) == FALSE

\* PirgRemoveMember, "Check if the user is the PI of the PIRG"
userIsPI(d, e, u) == UserInGroup(d, getPIRGPIGroupDN(e), u)

\* variant of removeFromSubgroups that stops after the sub-group "s1"
removeFromSubgroupsFirstOnly(d, e, u) ==
    [d EXCEPT !.member[getPIRGSubgroupDN(e, "s1")] = @ \ {u}]

\* PirgRemoveMember, the loop over the sub-groups of the PIRG
\* variant of removeFromSubgroups that leaves every sub-group as it is
removeFromSubgroupsNone(d, e, u) == d

removeFromSubgroups(d, e, u) ==
    [d EXCEPT !.member = [g \in Groups |->
        IF g[1] = e /\ g[2] \in Subs /\ DNExists(d, g) THEN @[g] \ {u} ELSE @[g]]]

\* variant of PirgRemoveMember that leaves the admins group as it is
PirgRemoveMemberKeepsAdmin(d, e, u) ==
    LET pirgDN == getPIRGDN(e)
        pirgPIGroupDN == getPIRGPIGroupDN(e)
    IN  IF ~getUserDNFound(u) THEN Ret(d, "ErrUserNotFound")
        ELSE IF ~DNExists(d, pirgDN) THEN Ret(d, "ErrLDAP")
        ELSE IF ~UserInGroup(d, pirgDN, u) THEN Ret(d, "ok")
        ELSE IF ~DNExists(d, pirgPIGroupDN) THEN Ret(d, "ErrLDAP")
        ELSE IF userIsPI(d, e, u) THEN Ret(d, "ErrCannotRemovePI")
        ELSE Ret(removeFromSubgroups(RemoveUserFromGroup(d, pirgDN, u), e, u), "ok")

PirgRemoveMember(d, e, u) ==
    LET pirgDN == getPIRGDN(e)
        pirgPIGroupDN == getPIRGPIGroupDN(e)
        pirgAdminsGroupDN == getPIRGAdminsGroupDN(e)
    IN  IF ~getUserDNFound(u) THEN Ret(d, "ErrUserNotFound")
        ELSE IF ~DNExists(d, pirgDN) THEN Ret(d, "ErrLDAP")             \* UserInGroup
        ELSE IF ~UserInGroup(d, pirgDN, u) THEN Ret(d, "ok")
        ELSE IF ~DNExists(d, pirgPIGroupDN) THEN Ret(d, "ErrLDAP") \* UserInGroup
        ELSE IF userIsPI(d, e, u) THEN Ret(d, "ErrCannotRemovePI")
        ELSE
        LET d1 == RemoveUserFromGroup(d, pirgDN, u)
            d2 == removeFromSubgroups(d1, e, u)
            d3 == IF UserInGroup(d2, pirgAdminsGroupDN, u)
                  THEN RemoveUserFromGroup(d2, pirgAdminsGroupDN, u) ELSE d2
            d4 == IF UserInGroup(d3, pirgPIGroupDN, u)
                  THEN RemoveUserFromGroup(d3, pirgPIGroupDN, u) ELSE d3
            d5 == IF ~userIsAdminInAnyPIRG(d4, u)
                  THEN removeUserFromTopLevelAdminsGroup(d4, u) ELSE d4
            d6 == IF ~userInAnyPIRG(d5, u)
                  THEN removeUserFromTopLevelUsersGroup(d5, u) ELSE d5
        IN  IF ~d1.groupsOU[e] THEN Ret(d1, "ErrLDAP")             \* GetGroupDNsInOU
            ELSE IF ~DNExists(d2, pirgAdminsGroupDN) THEN Ret(d2, "ErrLDAP")
            ELSE Ret(d6, "ok")

PirgCreate(d, e, u) ==
    IF findPIRGDN(d, e) THEN Ret(d, "ok")
    ELSE
    LET next == GetNextGidNumber(d)
        gidNumber == next.gid
        d1 == CreateGroupsOU(CreateOU(d, e), e)
        d2 == CreateGroup(d1, getPIRGDN(e), gidNumber)
        d3 == CreateGroup(d2, getPIRGAdminsGroupDN(e), gidNumber + 1)
        d4 == CreateGroup(d3, getPIRGPIGroupDN(e), gidNumber + 2)
        r1 == PirgSetPI(d4, e, u)
        r2 == PirgAddAdmin(r1.dir, e, u)
        r3 == PirgAddMember(r2.dir, e, u)
    IN  IF next.err # "ok" THEN Ret(d, next.err)
        ELSE IF r1.res # "ok" THEN [r1 EXCEPT !.gid = gidNumber]
        ELSE IF r2.res # "ok" THEN [r2 EXCEPT !.gid = gidNumber, !.warn = r1.warn]
        ELSE [r3 EXCEPT !.gid = gidNumber, !.warn = r1.warn]

\* PirgRemoveMember on a member who is not the PI, when a request after the
\* removal from the PIRG group fails: k = 1 the search for the sub-groups,
\* k = 2 a request on the admins group, k = 3 a request after the removal
\* from the admins group
PirgRemoveMemberStopped(d, e, u, k) ==
    LET d1 == RemoveUserFromGroup(d, getPIRGDN(e), u)
        d2 == removeFromSubgroups(d1, e, u)
        d3 == RemoveUserFromGroup(d2, getPIRGAdminsGroupDN(e), u)
    IN  Ret(IF k = 1 THEN d1 ELSE IF k = 2 THEN d2 ELSE d3, "ErrLDAP")

PirgDelete(d, e) ==
    IF ~findPIRGDN(d, e) THEN Ret(d, "ok")
    ELSE IF Cardinality(d.member[getPIRGDN(e)]) > 1 THEN Ret(d, "ErrNotEmpty")
    ELSE Ret(DeleteOURecursively(d, e), "ok")

\* --------------------------------------------------- sub-group operations
PirgSubgroupCreate(d, e, s) ==
    LET next == GetNextGidNumber(d)
        subgroupDN == getPIRGSubgroupDN(e, s)
    IN  IF next.err # "ok" THEN Ret(d, next.err)
        ELSE IF DNExists(d, subgroupDN) THEN [Ret(d, "ok") EXCEPT !.gid = next.gid]
        ELSE IF ~d.groupsOU[e] THEN [Ret(d, "ErrLDAP") EXCEPT !.gid = next.gid]
        ELSE [Ret(CreateGroup(d, subgroupDN, next.gid), "ok") EXCEPT !.gid = next.gid]

PirgSubgroupDelete(d, e, s) ==
    LET subgroupDN == getPIRGSubgroupDN(e, s)
    IN  IF ~DNExists(d, subgroupDN) THEN Ret(d, "ok")
        ELSE Ret(DeleteGroup(d, subgroupDN), "ok")

\* variant of PirgSubgroupAddMember without the check that the user is in
\* the PIRG
PirgSubgroupAddMemberUnchecked(d, e, s, u) ==
    LET subgroupDN == getPIRGSubgroupDN(e, s)
    IN  IF ~DNExists(d, subgroupDN) THEN Ret(d, "ErrLDAP")
        ELSE IF UserInGroup(d, subgroupDN, u) THEN Ret(d, "ok")
        ELSE Ret(AddUserToGroup(d, subgroupDN, u), "ok")

PirgSubgroupAddMember(d, e, s, u) ==
    LET pirgDN == getPIRGDN(e)
        subgroupDN == getPIRGSubgroupDN(e, s)
    IN  IF ~getUserDNFound(u) THEN Ret(d, "ErrUserNotFound")
        ELSE IF ~DNExists(d, pirgDN) THEN Ret(d, "ErrLDAP")             \* UserInGroup
        ELSE IF ~UserInGroup(d, pirgDN, u) THEN Ret(d, "ErrNotAMember")
        ELSE IF ~DNExists(d, subgroupDN) THEN Ret(d, "ErrLDAP")    \* UserInGroup
        ELSE IF UserInGroup(d, subgroupDN, u) THEN Ret(d, "ok")
        ELSE Ret(AddUserToGroup(d, subgroupDN, u), "ok")

PirgSubgroupRemoveMember(d, e, s, u) ==
    LET subgroupDN == getPIRGSubgroupDN(e, s)
    IN  IF ~getUserDNFound(u) THEN Ret(d, "ErrUserNotFound")
        ELSE IF ~DNExists(d, subgroupDN) THEN Ret(d, "ErrLDAP")         \* UserInGroup
        ELSE IF ~UserInGroup(d, subgroupDN, u) THEN Ret(d, "ok")
        ELSE Ret(RemoveUserFromGroup(d, subgroupDN, u), "ok")

\* ---------------------------------------------------- read-only operations
\* Names are kept as the sequence of their '.'-separated parts; a user's DN
\* as its first RDN, CN=<account name>.
groupPrefix == <<"is", "racs", "pirg">>

getPIRGFullName(e) == groupPrefix \o <<e>>

getPIRGAdminsGroupFullName(e) == groupPrefix \o <<e, "admins">>

getPIRGPIGroupFullName(e) == groupPrefix \o <<e, "pi">>

getPIRGSubgroupName(e, s) == getPIRGFullName(e) \o <<s>>

\* the cn of the group object <<entity, role>>
groupCN(g) ==
    IF g[2] = "primary" THEN getPIRGFullName(g[1])
    ELSE IF g[2] = "admins" THEN getPIRGAdminsGroupFullName(g[1])
    ELSE IF g[2] = "pi" THEN getPIRGPIGroupFullName(g[1])
    ELSE getPIRGSubgroupName(g[1], g[2])

\* variant of pirgGroupNameRegex that matches every name with the prefix
pirgGroupNameRegexPrefixOnly(n) ==
    Len(n) > Len(groupPrefix) /\ SubSeq(n, 1, Len(groupPrefix)) = groupPrefix

\* the prefix followed by one part without a '.'
pirgGroupNameRegex(n) == Len(n) = Len(groupPrefix) + 1 /\ SubSeq(n, 1, Len(groupPrefix)) = groupPrefix

\* variant of ConvertPIRGGroupNametoShortName that keeps the first part
ConvertPIRGGroupNametoShortNameFirst(n) == n[1]

\* the last '.'-separated part
ConvertPIRGGroupNametoShortName(n) == n[Len(n)]

GetUserDN(u) == <<"CN", u>>

\* the value of the first RDN
ConvertDNToObjectName(dn) == dn[2]

GetGroupNamesInOU(d) == {groupCN(g) : g \in {h \in PirgGroups : DNExists(d, h)}}

GetGroupMemberUsernames(d, g) ==
    {ConvertDNToObjectName(GetUserDN(u)) : u \in d.member[g]}

\* slices.Sort on the names that occur here
Lexical == <<"acme", "admins", "alice", "beta", "bob", "pi", "s1", "s2">>

isIn(x, S) == x \in S

Sort(S) == SelectSeq(Lexical, LAMBDA x : isIn(x, S))

PirgList(d) ==
    Sort({ConvertPIRGGroupNametoShortName(n) :
            n \in {m \in GetGroupNamesInOU(d) : pirgGroupNameRegex(m)}})

\* variant of PirgGetPIUsername that returns the first of several members
PirgGetPIUsernameFirstOfSeveral(d, e) ==
    LET members == GetGroupMemberUsernames(d, getPIRGPIGroupDN(e))
    IN  IF ~DNExists(d, getPIRGPIGroupDN(e)) THEN [err |-> "ErrLDAP", name |-> ""]
        ELSE IF Cardinality(members) = 0 THEN [err |-> "ErrNoPI", name |-> ""]
        ELSE [err |-> "ok", name |-> CHOOSE u \in members : TRUE]

PirgGetPIUsername(d, e) ==
    LET members == GetGroupMemberUsernames(d, getPIRGPIGroupDN(e))
    IN  IF ~DNExists(d, getPIRGPIGroupDN(e)) THEN [err |-> "ErrLDAP", name |-> ""]
        ELSE IF Cardinality(members) = 0 THEN [err |-> "ErrNoPI", name |-> ""]
        ELSE IF Cardinality(members) > 1 THEN [err |-> "ErrMultiplePIs", name |-> ""]
        ELSE [err |-> "ok", name |-> CHOOSE u \in members : TRUE]

PirgListMemberUsernames(d, e) == Sort(GetGroupMemberUsernames(d, getPIRGDN(e)))

PirgListAdminUsernames(d, e) ==
    Sort(GetGroupMemberUsernames(d, getPIRGAdminsGroupDN(e)))

\* ------------------------------------------------------- names as text
\* The name functions on text: a string is the sequence of its characters.
\* Chars holds one lower-case letter, one upper-case letter, one digit, the
\* two other characters the naming convention allows, the separator, and the
\* letters of "pi", the suffix of the pi group.
MaxNameLen == 3

Chars == {"a", "B", "7", "_", "-", ".", "p", "i"}

Texts == UNION {[1..n -> Chars] : n \in 0..MaxNameLen}

\* "is.racs.pirg."
groupPrefixText == <<"i", "s", ".", "r", "a", "c", "s", ".", "p", "i", "r", "g", ".">>

\* fmt.Sprintf("%s%s", groupPrefix, pirgName)
getPIRGFullNameText(name) == groupPrefixText \o name

\* fmt.Sprintf("%s%s.pi", groupPrefix, pirgName)
getPIRGPIGroupFullNameText(name) == getPIRGFullNameText(name) \o <<".", "p", "i">>

\* fmt.Sprintf("%s.%s", pirgFullName, subgroupName)
getPIRGSubgroupNameText(name, sub) == getPIRGFullNameText(name) \o <<".">> \o sub

\* strings.Split(s, sep) for a one-character separator
RECURSIVE Split(_, _)
Split(s, sep) ==
    IF \A i \in 1..Len(s) : s[i] # sep THEN <<s>>
    ELSE LET i == CHOOSE k \in 1..Len(s) : s[k] = sep /\ \A j \in 1..(k - 1) : s[j] # sep
         IN  <<SubSeq(s, 1, i - 1)>> \o Split(SubSeq(s, i + 1, Len(s)), sep)

\* variant of ConvertPIRGGroupNametoShortNameText that keeps everything after
\* the first separator
ConvertPIRGGroupNametoShortNameTextAfterFirst(n) ==
    LET parts == Split(n, ".")
    IN  SubSeq(n, Len(parts[1]) + 2, Len(n))

\* parts[len(parts)-1] of strings.Split(pirgName, ".")
ConvertPIRGGroupNametoShortNameText(n) ==
    LET parts == Split(n, ".")
    IN  parts[Len(parts)]

\* [a-zA-Z0-9_\-]+
validShortName(s) == Len(s) >= 1 /\ \A i \in 1..Len(s) : s[i] # "."

\* ------------------------------------------------------- software groups
\* A software entity is one group, CN=is.racs.software.<name>, directly
\* under the software base DN; the directory record holds it at
\* <<name, "software">>.  It draws its gidNumber from the same allocator and
\* shares the top-level users group with the PIRGs.
getSWDN(e) == <<e, "software">>

findSWDN(d, e) == DNExists(d, getSWDN(e))

SoftwareCreate(d, e) ==
    IF findSWDN(d, e) THEN Ret(d, "ok")
    ELSE
    LET next == GetNextGidNumber(d)
    IN  IF next.err # "ok" THEN Ret(d, next.err)
        ELSE [Ret(CreateGroup(d, getSWDN(e), next.gid), "ok") EXCEPT !.gid = next.gid]

\* variant of SoftwareDelete that tolerates one member, as PirgDelete does
SoftwareDeleteTolerant(d, e) ==
    IF ~findSWDN(d, e) THEN Ret(d, "ok")
    ELSE IF Cardinality(GetGroupMemberUsernames(d, getSWDN(e))) > 1
         THEN Ret(d, "ErrNotEmpty")
    ELSE Ret(DeleteGroup(d, getSWDN(e)), "ok")

SoftwareDelete(d, e) ==
    IF ~findSWDN(d, e) THEN Ret(d, "ok")
    ELSE IF Cardinality(GetGroupMemberUsernames(d, getSWDN(e))) > 0
         THEN Ret(d, "ErrNotEmpty")
    ELSE Ret(DeleteGroup(d, getSWDN(e)), "ok")

SoftwareAddMember(d, e, u) ==
    LET softwareDN == getSWDN(e)
    IN  IF ~getUserDNFound(u) THEN Ret(d, "ErrUserNotFound")
        ELSE IF ~DNExists(d, softwareDN) THEN Ret(d, "ErrLDAP")         \* UserInGroup
        ELSE IF UserInGroup(d, softwareDN, u) THEN Ret(d, "ok")
        ELSE Ret(addUserToTopLevelUsersGroup(AddUserToGroup(d, softwareDN, u), u), "ok")

SoftwareRemoveMember(d, e, u) ==
    LET softwareDN == getSWDN(e)
    IN  IF ~getUserDNFound(u) THEN Ret(d, "ErrUserNotFound")
        ELSE IF ~DNExists(d, softwareDN) THEN Ret(d, "ErrLDAP")         \* UserInGroup
        ELSE IF ~UserInGroup(d, softwareDN, u) THEN Ret(d, "ok")
        ELSE Ret(RemoveUserFromGroup(d, softwareDN, u), "ok")

\* ------------------------------------------------------------ the machine
EmptyDirectory(f) ==
    [ou |-> [e \in Entities |-> FALSE],
     groupsOU |-> [e \in Entities |-> FALSE],
     gidNumber |-> [g \in Groups |-> 0],
     member |-> [g \in Groups |-> {}],
     topLevelUsers |-> {},
     topLevelAdmins |-> {},
     foreignGid |-> f]

\* seen: what the last search of the run returned
Idle == [pc |-> "idle", e |-> "acme", u |-> "alice", gid |-> 0, res |-> "ok",
         seen |-> {}]

NoName == [arg |-> <<>>, cn |-> <<>>, short |-> <<>>]

Init ==
    /\ \E f \in ForeignGids : dir = EmptyDirectory(f)
    /\ last = [op |-> "none", res |-> "ok", gid |-> 0, warn |-> FALSE]
    /\ lastGid = 0
    /\ prevGid = 0
    /\ proc = [p \in Procs |-> Idle]
    /\ nm = NoName
    /\ cli = [exit |-> 0, closed |-> TRUE]

\* one CLI invocation: the call runs to completion on the directory
Call(op, r) ==
    /\ dir' = r.dir
    /\ last' = [op |-> op, res |-> r.res, gid |-> r.gid, warn |-> r.warn]
    /\ lastGid' = IF r.gid # 0 THEN r.gid ELSE lastGid
    /\ prevGid' = IF r.gid # 0 THEN lastGid ELSE prevGid
    /\ UNCHANGED <<proc, nm, cli>>

\* the commands, with the entity, user and sub-group names drawn from E, U
\* and S
Create(E, U) == \E e \in E, u \in U : Call("Create", PirgCreate(dir, e, u))

Delete(E) == \E e \in E : Call("Delete", PirgDelete(dir, e))

SetPI(E, U) == \E e \in E, u \in U : Call("SetPI", PirgSetPI(dir, e, u))

AddMember(E, U) == \E e \in E, u \in U : Call("AddMember", PirgAddMember(dir, e, u))

RemoveMember(E, U) ==
    \E e \in E, u \in U : Call("RemoveMember", PirgRemoveMember(dir, e, u))

AddAdmin(E, U) == \E e \in E, u \in U : Call("AddAdmin", PirgAddAdmin(dir, e, u))

RemoveAdmin(E, U) ==
    \E e \in E, u \in U : Call("RemoveAdmin", PirgRemoveAdmin(dir, e, u))

SubgroupCreate(E, S) ==
    \E e \in E, s \in S : Call("SubgroupCreate", PirgSubgroupCreate(dir, e, s))

SubgroupDelete(E, S) ==
    \E e \in E, s \in S : Call("SubgroupDelete", PirgSubgroupDelete(dir, e, s))

SubgroupAddMember(E, U, S) ==
    \E e \in E, s \in S, u \in U :
        Call("SubgroupAddMember", PirgSubgroupAddMember(dir, e, s, u))

SubgroupRemoveMember(E, U, S) ==
    \E e \in E, s \in S, u \in U :
        Call("SubgroupRemoveMember", PirgSubgroupRemoveMember(dir, e, s, u))

Commands(E, U, S) ==
    \/ Create(E, U)
    \/ Delete(E)
    \/ SetPI(E, U)
    \/ AddMember(E, U)
    \/ RemoveMember(E, U)
    \/ AddAdmin(E, U)
    \/ RemoveAdmin(E, U)
    \/ SubgroupCreate(E, S)
    \/ SubgroupDelete(E, S)
    \/ SubgroupAddMember(E, U, S)
    \/ SubgroupRemoveMember(E, U, S)

\* Serial runs on one entity with two users.
Next == Commands({"acme"}, Users, {"s1"})

Spec == Init /\ [][Next]_vars

\* Serial runs on two entities with one user: the runs that exercise the
\* GID allocator.
NextAlloc == Commands(Entities, {"alice"}, {"s1"})

SpecAlloc == Init /\ [][NextAlloc]_vars

\* Serial runs on one entity with two sub-groups: the commands that build
\* up memberships, and remove-member.
NextCascade ==
    \/ Create({"acme"}, Users)
    \/ AddMember({"acme"}, Users)
    \/ AddAdmin({"acme"}, Users)
    \/ SubgroupCreate({"acme"}, Subs)
    \/ SubgroupAddMember({"acme"}, Users, Subs)
    \/ RemoveMember({"acme"}, Users)

SpecCascade == Init /\ [][NextCascade]_vars

\* A member added to a pi group by a directory write that is not one of the
\* serial commands above (AddUserToGroup issued by an interleaved set-pi, or
\* by another client of the directory): the case PirgSetPI allows for when it
\* finds more than one existing PI.
AddUserToPIGroup(E, U) ==
    \E e \in E, u \in U :
        /\ DNExists(dir, getPIRGPIGroupDN(e))
        /\ ~UserInGroup(dir, getPIRGPIGroupDN(e), u)
        /\ dir' = AddUserToGroup(dir, getPIRGPIGroupDN(e), u)
        /\ last' = [op |-> "AddUserToPIGroup", res |-> "ok", gid |-> 0, warn |-> FALSE]
        /\ UNCHANGED <<lastGid, prevGid, proc, nm, cli>>

\* Serial runs on one entity over a directory whose pi group is also written
\* from outside.
NextExt == Next \/ AddUserToPIGroup({"acme"}, Users)

SpecExt == Init /\ [][NextExt]_vars

\* A set-pi run in which the directory answers one of the three add
\* requests with an error.
SetPIFails(E, U) ==
    \E e \in E, u \in U, k \in 1..3 :
        /\ DNExists(dir, getPIRGDN(e))
        /\ DNExists(dir, getPIRGPIGroupDN(e))
        /\ DNExists(dir, getPIRGAdminsGroupDN(e))
        /\ Call("SetPI", PirgSetPIStopped(dir, e, u, k))

\* Serial runs on one entity in which set-pi can fail partway.
NextFail == Next \/ SetPIFails({"acme"}, Users)

SpecFail == Init /\ [][NextFail]_vars

\* ------------------------------------------------- two entity types
\* The software commands
SwCreate(E) == \E e \in E : Call("SoftwareCreate", SoftwareCreate(dir, e))

SwDelete(E) == \E e \in E : Call("SoftwareDelete", SoftwareDelete(dir, e))

SwAddMember(E, U) ==
    \E e \in E, u \in U : Call("SoftwareAddMember", SoftwareAddMember(dir, e, u))

SwRemoveMember(E, U) ==
    \E e \in E, u \in U : Call("SoftwareRemoveMember", SoftwareRemoveMember(dir, e, u))

\* Serial runs on one directory that holds a PIRG, "acme", and a software
\* group, "beta".
PirgNames == {"acme"}

SoftwareNames == {"beta"}

NextTypes ==
    \/ Create(PirgNames, Users)
    \/ Delete(PirgNames)
    \/ SetPI(PirgNames, Users)
    \/ AddMember(PirgNames, Users)
    \/ RemoveMember(PirgNames, Users)
    \/ AddAdmin(PirgNames, Users)
    \/ RemoveAdmin(PirgNames, Users)
    \/ SwCreate(SoftwareNames)
    \/ SwDelete(SoftwareNames)
    \/ SwAddMember(SoftwareNames, Users)
    \/ SwRemoveMember(SoftwareNames, Users)

SpecTypes == Init /\ [][NextTypes]_vars

\* ------------------------------------------------- concurrent create runs
\* Two runs of PirgCreate against the same directory.  Each LDAP request of
\* PirgCreate is one step of the run; proc[p] holds the run's arguments,
\* the gidNumber it was handed and the statement it has reached.
Step(p, pc, d) ==
    /\ proc' = [proc EXCEPT ![p].pc = pc]
    /\ dir' = d
    /\ UNCHANGED <<last, lastGid, prevGid, nm, cli>>

Return(p, res, d) ==
    /\ proc' = [proc EXCEPT ![p].pc = "done", ![p].res = res]
    /\ dir' = d
    /\ UNCHANGED <<last, lastGid, prevGid, nm, cli>>

\* the directory holds a group with this gidNumber
gidInUse(d, gid) == \E g \in Groups : d.gidNumber[g] = gid

CreateStart(p) ==
    /\ proc[p].pc = "idle"
    /\ \E e \in Entities :
         /\ proc' = [proc EXCEPT ![p] = [Idle EXCEPT !.pc = "find", !.e = e]]
         /\ UNCHANGED <<dir, last, lastGid, prevGid, nm, cli>>

\* found, err := findPIRGDN(...); if found { return nil }
CreateFind(p) ==
    /\ proc[p].pc = "find"
    /\ IF findPIRGDN(dir, proc[p].e) THEN Return(p, "ok", dir)
       ELSE Step(p, "gid", dir)

\* the value GetNextGidNumber would hand out were the gidNumbers of the
\* runs in flight counted as taken
CreateGetGidReserving(p) ==
    /\ proc[p].pc = "gid"
    /\ LET taken == {dir.foreignGid} \cup {proc[q].gid + 2 : q \in Procs \ {p}}
           next == GetNextGidNumber([dir EXCEPT !.foreignGid = Max(taken)])
       IN  /\ next.err = "ok"
           /\ proc' = [proc EXCEPT ![p].pc = "ou", ![p].gid = next.gid]
           /\ UNCHANGED <<dir, last, lastGid, prevGid, nm, cli>>

\* gidNumber, err := ld.GetNextGidNumber(ctx)
CreateGetGid(p) ==
    /\ proc[p].pc = "gid"
    /\ LET next == GetNextGidNumber(dir)
       IN  IF next.err # "ok" THEN Return(p, next.err, dir)
           ELSE /\ proc' = [proc EXCEPT ![p].pc = "ou", ![p].gid = next.gid]
                /\ UNCHANGED <<dir, last, lastGid, prevGid, nm, cli>>

CreateMakeOU(p) ==
    /\ proc[p].pc = "ou"
    /\ Step(p, "groupsOU", CreateOU(dir, proc[p].e))

CreateMakeGroupsOU(p) ==
    /\ proc[p].pc = "groupsOU"
    /\ Step(p, "primary", CreateGroupsOU(dir, proc[p].e))

\* ld.CreateGroup: the add request carries the gidNumber the run was handed;
\* a directory that has another group with that gidNumber either stores the
\* new group or refuses the request
CreateMakeGroup(p, pc, g, gid, nextpc) ==
    /\ proc[p].pc = pc
    /\ \/ Step(p, nextpc, CreateGroup(dir, g, gid))
       \/ /\ ~DNExists(dir, g)
          /\ gidInUse(dir, gid)
          /\ Return(p, "ErrLDAP", dir)

CreateMakePrimary(p) ==
    CreateMakeGroup(p, "primary", getPIRGDN(proc[p].e), proc[p].gid, "admins")

CreateMakeAdmins(p) ==
    CreateMakeGroup(p, "admins", getPIRGAdminsGroupDN(proc[p].e), proc[p].gid + 1, "pi")

CreateMakePI(p) ==
    CreateMakeGroup(p, "pi", getPIRGPIGroupDN(proc[p].e), proc[p].gid + 2, "populate")

\* PirgSetPI, PirgAddAdmin, PirgAddMember
CreatePopulate(p) ==
    /\ proc[p].pc = "populate"
    /\ LET r1 == PirgSetPI(dir, proc[p].e, proc[p].u)
           r2 == PirgAddAdmin(r1.dir, proc[p].e, proc[p].u)
           r3 == PirgAddMember(r2.dir, proc[p].e, proc[p].u)
       IN  IF r1.res # "ok" THEN Return(p, r1.res, r1.dir)
           ELSE IF r2.res # "ok" THEN Return(p, r2.res, r2.dir)
           ELSE Return(p, r3.res, r3.dir)

\* the process exits
CreateExit(p) ==
    /\ proc[p].pc = "done"
    /\ proc' = [proc EXCEPT ![p] = Idle]
    /\ UNCHANGED <<dir, last, lastGid, prevGid, nm, cli>>

NextConc ==
    \E p \in Procs :
        \/ CreateStart(p)
        \/ CreateFind(p)
        \/ CreateGetGid(p)
        \/ CreateMakeOU(p)
        \/ CreateMakeGroupsOU(p)
        \/ CreateMakePrimary(p)
        \/ CreateMakeAdmins(p)
        \/ CreateMakePI(p)
        \/ CreatePopulate(p)
        \/ CreateExit(p)

SpecConc == Init /\ [][NextConc]_vars

\* the process is killed between two LDAP requests of PirgCreate
CreateCrash(p) ==
    /\ proc[p].pc \in {"gid", "ou", "groupsOU", "primary", "admins", "pi", "populate"}
    /\ proc' = [proc EXCEPT ![p] = Idle]
    /\ UNCHANGED <<dir, last, lastGid, prevGid, nm, cli>>

\* create runs that can be killed at any point
NextCrash == NextConc \/ \E p \in Procs : CreateCrash(p)

SpecCrash == Init /\ [][NextCrash]_vars

\* ------------------------------------------------- reading the owner
\* get-pi, a command that only reads
GetPIUsername(E) ==
    \E e \in E : Call("GetPIUsername", Ret(dir, PirgGetPIUsername(dir, e).err))

\* Runs that leave a pi group empty (a set-pi that fails midway) or with
\* several members (a write from outside), and get-pi.
NextOwner ==
    \/ NextFail
    \/ AddUserToPIGroup({"acme"}, Users)
    \/ GetPIUsername({"acme"})

SpecOwner == Init /\ [][NextOwner]_vars

\* ------------------------------------------------- set-pi, run again
\* A set-pi that fails at one of its three add requests; proc["p1"] keeps
\* the arguments for the operator who runs the same command again.
SetPIInterrupted(E, U) ==
    \E e \in E, u \in U, k \in 1..3 :
        LET r == PirgSetPIStopped(dir, e, u, k)
        IN  /\ proc["p1"].pc = "idle"
            /\ DNExists(dir, getPIRGDN(e))
            /\ DNExists(dir, getPIRGPIGroupDN(e))
            /\ DNExists(dir, getPIRGAdminsGroupDN(e))
            /\ dir' = r.dir
            /\ last' = [op |-> "SetPI", res |-> r.res, gid |-> 0, warn |-> r.warn]
            /\ proc' = [proc EXCEPT !["p1"] = [Idle EXCEPT !.pc = "retry", !.e = e, !.u = u]]
            /\ UNCHANGED <<lastGid, prevGid, nm, cli>>

\* the same set-pi command, run again
SetPIRetry ==
    LET r == PirgSetPI(dir, proc["p1"].e, proc["p1"].u)
    IN  /\ proc["p1"].pc = "retry"
        /\ dir' = r.dir
        /\ last' = [op |-> "SetPIRetry", res |-> r.res, gid |-> 0, warn |-> r.warn]
        /\ proc' = [proc EXCEPT !["p1"].pc = "idle"]
        /\ UNCHANGED <<lastGid, prevGid, nm, cli>>

\* the commands that change memberships, with a set-pi that fails and is
\* run again
NextRetry ==
    \/ Create({"acme"}, Users)
    \/ Delete({"acme"})
    \/ SetPI({"acme"}, Users)
    \/ AddMember({"acme"}, Users)
    \/ RemoveMember({"acme"}, Users)
    \/ AddAdmin({"acme"}, Users)
    \/ RemoveAdmin({"acme"}, Users)
    \/ SetPIInterrupted({"acme"}, Users)
    \/ SetPIRetry

SpecRetry == Init /\ [][NextRetry]_vars

\* ------------------------------------------ remove-member that is run again
\* A remove-member of a member who is not the PI stops with an error after
\* the removal from the PIRG group.
RemoveMemberInterrupted(E, U) ==
    \E e \in E, u \in U, k \in 1..3 :
        LET r == PirgRemoveMemberStopped(dir, e, u, k)
        IN  /\ proc["p1"].pc = "idle"
            /\ DNExists(dir, getPIRGDN(e))
            /\ DNExists(dir, getPIRGPIGroupDN(e))
            /\ DNExists(dir, getPIRGAdminsGroupDN(e))
            /\ UserInGroup(dir, getPIRGDN(e), u)
            /\ ~userIsPI(dir, e, u)
            /\ dir' = r.dir
            /\ last' = [op |-> "RemoveMember", res |-> r.res, gid |-> 0, warn |-> FALSE]
            /\ proc' = [proc EXCEPT !["p1"] = [Idle EXCEPT !.pc = "redo", !.e = e, !.u = u]]
            /\ UNCHANGED <<lastGid, prevGid, nm, cli>>

\* the same remove-member command, run again
RemoveMemberRetry ==
    LET r == PirgRemoveMember(dir, proc["p1"].e, proc["p1"].u)
    IN  /\ proc["p1"].pc = "redo"
        /\ dir' = r.dir
        /\ last' = [op |-> "RemoveMemberRetry", res |-> r.res, gid |-> 0, warn |-> FALSE]
        /\ proc' = [proc EXCEPT !["p1"].pc = "idle"]
        /\ UNCHANGED <<lastGid, prevGid, nm, cli>>

\* the commands that build up memberships, with a remove-member that fails
\* and is run again at once
NextRedo ==
    \/ proc["p1"].pc = "idle" /\ Create({"acme"}, Users)
    \/ proc["p1"].pc = "idle" /\ AddMember({"acme"}, Users)
    \/ proc["p1"].pc = "idle" /\ AddAdmin({"acme"}, Users)
    \/ proc["p1"].pc = "idle" /\ SubgroupCreate({"acme"}, {"s1"})
    \/ proc["p1"].pc = "idle" /\ SubgroupAddMember({"acme"}, Users, {"s1"})
    \/ proc["p1"].pc = "idle" /\ RemoveMember({"acme"}, Users)
    \/ RemoveMemberInterrupted({"acme"}, Users)
    \/ RemoveMemberRetry

SpecRedo == Init /\ [][NextRedo]_vars

\* ------------------------------------------- remove-member beside set-pi
\* Two processes on one entity and one user: p1 runs PirgRemoveMember, p2
\* runs PirgSetPI.  Each directory request is one step; the requests of the
\* two runs interleave in every order.  A search leaves the directory as it
\* is, and the run goes on with what it was returned (proc[p].seen).  The commands that build the entity
\* up run while no process is in flight.
RaceStart ==
    /\ \A p \in Procs : proc[p].pc = "idle"
    /\ \E u \in Users :
         /\ proc' = [p1 |-> [Idle EXCEPT !.pc = "rmMember", !.u = u],
                     p2 |-> [Idle EXCEPT !.pc = "piRead", !.u = u]]
         /\ UNCHANGED <<dir, last, lastGid, prevGid, nm, cli>>

\* inGroup, err := ld.UserInGroup(ctx, pirgDN, userDN); if !inGroup return nil
RemoveCheckMember(p) ==
    /\ proc[p].pc = "rmMember"
    /\ IF ~DNExists(dir, getPIRGDN(proc[p].e)) THEN Return(p, "ErrLDAP", dir)
       ELSE IF ~UserInGroup(dir, getPIRGDN(proc[p].e), proc[p].u)
            THEN Return(p, "ok", dir)
       ELSE Step(p, "rmIsPI", dir)

\* "if user is PI, error"
RemoveCheckPI(p) ==
    /\ proc[p].pc = "rmIsPI"
    /\ IF userIsPI(dir, proc[p].e, proc[p].u)
       THEN Return(p, "ErrCannotRemovePI", dir)
       ELSE Step(p, "rmPrimary", dir)

RemoveFromPrimary(p) ==
    /\ proc[p].pc = "rmPrimary"
    /\ Step(p, "rmSubgroups", RemoveUserFromGroup(dir, getPIRGDN(proc[p].e), proc[p].u))

\* the loop over the sub-groups, which set-pi neither reads nor writes
RemoveFromSubgroups(p) ==
    /\ proc[p].pc = "rmSubgroups"
    /\ Step(p, "rmAdminsCheck", removeFromSubgroups(dir, proc[p].e, proc[p].u))

RemoveCheckAdmins(p) ==
    /\ proc[p].pc = "rmAdminsCheck"
    /\ IF UserInGroup(dir, getPIRGAdminsGroupDN(proc[p].e), proc[p].u)
       THEN Step(p, "rmAdmins", dir)
       ELSE Step(p, "rmPICheck", dir)

RemoveFromAdmins(p) ==
    /\ proc[p].pc = "rmAdmins"
    /\ Step(p, "rmPICheck",
            RemoveUserFromGroup(dir, getPIRGAdminsGroupDN(proc[p].e), proc[p].u))

RemoveCheckPIGroup(p) ==
    /\ proc[p].pc = "rmPICheck"
    /\ IF UserInGroup(dir, getPIRGPIGroupDN(proc[p].e), proc[p].u)
       THEN Step(p, "rmPI", dir)
       ELSE Step(p, "rmRosters", dir)

RemoveFromPIGroup(p) ==
    /\ proc[p].pc = "rmPI"
    /\ Step(p, "rmRosters",
            RemoveUserFromGroup(dir, getPIRGPIGroupDN(proc[p].e), proc[p].u))

\* the two roster checks and removals, which set-pi does not write
RemoveFromRosters(p) ==
    /\ proc[p].pc = "rmRosters"
    /\ LET u == proc[p].u
           d5 == IF ~userIsAdminInAnyPIRG(dir, u)
                 THEN removeUserFromTopLevelAdminsGroup(dir, u) ELSE dir
           d6 == IF ~userInAnyPIRG(d5, u)
                 THEN removeUserFromTopLevelUsersGroup(d5, u) ELSE d5
       IN  Return(p, "ok", d6)

\* existingMemberDNs, err := ld.GetGroupMemberDNs(ctx, pirgPIGroupDN)
SetPIRead(p) ==
    /\ proc[p].pc = "piRead"
    /\ IF ~DNExists(dir, getPIRGPIGroupDN(proc[p].e)) THEN Return(p, "ErrLDAP", dir)
       ELSE /\ proc' = [proc EXCEPT ![p].pc = "piRemove",
                                    ![p].seen = dir.member[getPIRGPIGroupDN(proc[p].e)]]
            /\ UNCHANGED <<dir, last, lastGid, prevGid, nm, cli>>

\* the loop that removes the members the search returned
SetPIRemoveExisting(p) ==
    /\ proc[p].pc = "piRemove"
    /\ Step(p, "piPrimary",
            [dir EXCEPT !.member[getPIRGPIGroupDN(proc[p].e)] = @ \ proc[p].seen])

SetPIAddPrimary(p) ==
    /\ proc[p].pc = "piPrimary"
    /\ Step(p, "piGroup", AddUserToGroup(dir, getPIRGDN(proc[p].e), proc[p].u))

SetPIAddPI(p) ==
    /\ proc[p].pc = "piGroup"
    /\ Step(p, "piAdmins", AddUserToGroup(dir, getPIRGPIGroupDN(proc[p].e), proc[p].u))

SetPIAddAdmins(p) ==
    /\ proc[p].pc = "piAdmins"
    /\ Return(p, "ok", AddUserToGroup(dir, getPIRGAdminsGroupDN(proc[p].e), proc[p].u))

\* both processes have ended
RaceExit ==
    /\ \A p \in Procs : proc[p].pc = "done"
    /\ proc' = [p \in Procs |-> Idle]
    /\ UNCHANGED <<dir, last, lastGid, prevGid, nm, cli>>

NextRace ==
    \/ (\A p \in Procs : proc[p].pc = "idle") /\ Create({"acme"}, Users)
    \/ (\A p \in Procs : proc[p].pc = "idle") /\ AddMember({"acme"}, Users)
    \/ (\A p \in Procs : proc[p].pc = "idle") /\ AddAdmin({"acme"}, Users)
    \/ RaceStart
    \/ RemoveCheckMember("p1")
    \/ RemoveCheckPI("p1")
    \/ RemoveFromPrimary("p1")
    \/ RemoveFromSubgroups("p1")
    \/ RemoveCheckAdmins("p1")
    \/ RemoveFromAdmins("p1")
    \/ RemoveCheckPIGroup("p1")
    \/ RemoveFromPIGroup("p1")
    \/ RemoveFromRosters("p1")
    \/ SetPIRead("p2")
    \/ SetPIRemoveExisting("p2")
    \/ SetPIAddPrimary("p2")
    \/ SetPIAddPI("p2")
    \/ SetPIAddAdmins("p2")
    \/ RaceExit

SpecRace == Init /\ [][NextRace]_vars

\* --------------------------------------------------------- the process
\* main.  Each command line is one process: it opens the connection, defers
\* the Close of the connection, and runs the case of the command.  The case
\* ends by returning from main (exit status 0, the deferred Close runs) or
\* by os.Exit(1) (the process ends at once, deferred functions do not run).
PirgExists(d, e) == findPIRGDN(d, e)

PirgSubgroupExists(d, e, s) == DNExists(d, getPIRGSubgroupDN(e, s))

\* The cephfs package is the pirg package with the names replaced
\* (CephfsExists is PirgExists, CephfsCreate is PirgCreate,
\* CephfsGetOwnerUsername is PirgGetPIUsername); a cephfs entity is held in
\* dir like a PIRG, under a name no PIRG has.
CEPHFSSetOWNER(d, e, u) == PirgSetPI(d, e, u)

\* the two ways out of main
Returned(r) == [r |-> r, exit |-> 0, closed |-> TRUE]

OsExit(r) == [r |-> r, exit |-> 1, closed |-> FALSE]

\* if err != nil { fmt.Printf(...); os.Exit(1) }
exitOnError(r) == IF r.res # "ok" THEN OsExit(r) ELSE Returned(r)

\* the cases that ask PirgExists first and print "not found"
ifFound(d, e, r) ==
    IF ~PirgExists(d, e) THEN Returned(Ret(d, "NotFound")) ELSE exitOnError(r)

\* the sub-group cases, which ask PirgSubgroupExists next
ifSubgroupFound(d, e, s, r) ==
    IF ~PirgExists(d, e) THEN Returned(Ret(d, "NotFound"))
    ELSE IF ~PirgSubgroupExists(d, e, s) THEN Returned(Ret(d, "NotFound"))
    ELSE exitOnError(r)

mainCreate(d, e, u) ==
    IF PirgExists(d, e) THEN Returned(Ret(d, "AlreadyExists"))
    ELSE exitOnError(PirgCreate(d, e, u))

mainSubgroupCreate(d, e, s) ==
    IF ~PirgExists(d, e) THEN Returned(Ret(d, "NotFound"))
    ELSE IF PirgSubgroupExists(d, e, s) THEN Returned(Ret(d, "AlreadyExists"))
    ELSE exitOnError(PirgSubgroupCreate(d, e, s))

\* "cephfs <name> set-owner" goes on when the entity is not found, and
\* returns from main whether CEPHFSSetOWNER failed or not
mainCephfsSetOwner(d, e, u) == Returned(CEPHFSSetOWNER(d, e, u))

\* one process, from its start to its end
Run(op, m) ==
    /\ dir' = m.r.dir
    /\ last' = [op |-> op, res |-> m.r.res, gid |-> m.r.gid, warn |-> m.r.warn]
    /\ lastGid' = IF m.r.gid # 0 THEN m.r.gid ELSE lastGid
    /\ prevGid' = IF m.r.gid # 0 THEN lastGid ELSE prevGid
    /\ cli' = [exit |-> m.exit, closed |-> m.closed]
    /\ UNCHANGED <<proc, nm>>

\* LoadLDAPConnection fails: os.Exit(1) before there is a connection
ConnectFails ==
    /\ last' = [op |-> "connect", res |-> "ErrConnect", gid |-> 0, warn |-> FALSE]
    /\ cli' = [exit |-> 1, closed |-> TRUE]
    /\ UNCHANGED <<dir, lastGid, prevGid, proc, nm>>

\* The commands on the PIRG acme and on the cephfs entity beta; the user
\* names given on the command line are an account and a name without one.
\* "cephfs <name> create" is the text of "pirg <name> create"; "cephfs
\* <name> get-owner" does not ask CephfsExists first.
NextCli ==
    \/ ConnectFails
    \/ \E u \in {"alice", "ghost"} :
         \/ Run("Create", mainCreate(dir, "acme", u))
         \/ Run("Delete", ifFound(dir, "acme", PirgDelete(dir, "acme")))
         \/ Run("GetPIUsername",
                ifFound(dir, "acme", Ret(dir, PirgGetPIUsername(dir, "acme").err)))
         \/ Run("SetPI", ifFound(dir, "acme", PirgSetPI(dir, "acme", u)))
         \/ Run("AddMember", ifFound(dir, "acme", PirgAddMember(dir, "acme", u)))
         \/ Run("RemoveMember", ifFound(dir, "acme", PirgRemoveMember(dir, "acme", u)))
         \/ Run("AddAdmin", ifFound(dir, "acme", PirgAddAdmin(dir, "acme", u)))
         \/ Run("RemoveAdmin", ifFound(dir, "acme", PirgRemoveAdmin(dir, "acme", u)))
         \/ Run("SubgroupCreate", mainSubgroupCreate(dir, "acme", "s1"))
         \/ Run("SubgroupDelete",
                ifSubgroupFound(dir, "acme", "s1", PirgSubgroupDelete(dir, "acme", "s1")))
         \/ Run("SubgroupAddMember",
                ifSubgroupFound(dir, "acme", "s1",
                                PirgSubgroupAddMember(dir, "acme", "s1", u)))
         \/ Run("SubgroupRemoveMember",
                ifSubgroupFound(dir, "acme", "s1",
                                PirgSubgroupRemoveMember(dir, "acme", "s1", u)))
         \/ Run("CephfsCreate", mainCreate(dir, "beta", u))
         \/ Run("CephfsGetOwner",
                exitOnError(Ret(dir, PirgGetPIUsername(dir, "beta").err)))
         \/ Run("CephfsSetOwner", mainCephfsSetOwner(dir, "beta", u))

SpecCli == Init /\ [][NextCli]_vars

\* ------------------------------------------------- name arguments as text
\* The commands take the entity name and the sub-group name from the command
\* line as they are; dir stays the empty directory and nm follows what the
\* commands make of the argument.
InitNames ==
    /\ dir = EmptyDirectory(0)
    /\ last = [op |-> "none", res |-> "ok", gid |-> 0, warn |-> FALSE]
    /\ lastGid = 0
    /\ prevGid = 0
    /\ proc = [p \in Procs |-> Idle]
    /\ \E s \in Texts : nm = [arg |-> s, cn |-> <<>>, short |-> <<>>]
    /\ cli = [exit |-> 0, closed |-> TRUE]

Named(op, cn, short) ==
    /\ nm' = [nm EXCEPT !.cn = cn, !.short = short]
    /\ last' = [op |-> op, res |-> "ok", gid |-> 0, warn |-> FALSE]
    /\ UNCHANGED <<dir, lastGid, prevGid, proc, cli>>

\* PirgCreate: the cn it hands to CreateGroup for the primary group
CreateNamed == Named("Create", getPIRGFullNameText(nm.arg), <<>>)

\* PirgSubgroupCreate under the entity "a": the cn it hands to CreateGroup
SubgroupCreateNamed ==
    Named("SubgroupCreate", getPIRGSubgroupNameText(<<"a">>, nm.arg), <<>>)

\* ConvertPIRGGroupNametoShortName applied to the cn of the primary group
ShortNamed ==
    /\ last.op = "Create"
    /\ Named("ShortName", nm.cn, ConvertPIRGGroupNametoShortNameText(nm.cn))

NextNames == CreateNamed \/ SubgroupCreateNamed \/ ShortNamed

SpecNames == InitNames /\ [][NextNames]_vars

\* ----------------------------------------------------------------- claims
currentOwner(d, e) == d.member[getPIRGPIGroupDN(e)]

\* C1: whenever an entity has an owner, that owner is a member of the
\* entity's primary group and of its admins group.
C1_OwnerIsMemberAndAdmin ==
    \A e \in Entities : \A u \in currentOwner(dir, e) :
        /\ UserInGroup(dir, getPIRGDN(e), u)
        /\ UserInGroup(dir, getPIRGAdminsGroupDN(e), u)

\* C2: the owner group of every entity has at most one member.
C2_OwnerGroupAtMostOne ==
    \A e \in Entities : Cardinality(currentOwner(dir, e)) <= 1

\* an owner was reassigned: the last call was a successful set-pi and the
\* user it replaced is still a member of the entity
C2_Witness ==
    /\ last.op = "SetPI"
    /\ last.res = "ok"
    /\ \E e \in Entities :
         /\ Cardinality(currentOwner(dir, e)) = 1
         /\ Cardinality(dir.member[getPIRGDN(e)]) = 2

C4_SetOwnerPostcondition ==
    \A e \in Entities, u \in Users :
        LET r == PirgSetPI(dir, e, u)
        IN  r.res = "ok" =>
              /\ UserInGroup(r.dir, getPIRGDN(e), u)
              /\ UserInGroup(r.dir, getPIRGAdminsGroupDN(e), u)
              /\ currentOwner(r.dir, e) = {u}

\* a set-pi call has just succeeded on a pi group that held several users
C4_Witness ==
    /\ last.op = "SetPI"
    /\ last.res = "ok"
    /\ last.warn
    /\ \E e \in Entities : Cardinality(currentOwner(dir, e)) = 1

\* the pi-group memberships of all entities
owners(d) == [e \in Entities |-> currentOwner(d, e)]

C6_CreatedGidInRange ==
    \A g \in Groups :
        DNExists(dir, g) => MinGid <= dir.gidNumber[g] /\ dir.gidNumber[g] < MaxGid

C8_GidUnique ==
    \A g \in Groups :
        DNExists(dir, g) =>
          /\ dir.gidNumber[g] # dir.foreignGid
          /\ \A h \in Groups : h # g => dir.gidNumber[h] # dir.gidNumber[g]

\* a create has just added groups to a directory that already held another
\* entity's groups
C8_Witness ==
    /\ last.op \in {"Create", "SubgroupCreate"}
    /\ last.res = "ok"
    /\ last.gid # 0
    /\ \A e \in Entities : findPIRGDN(dir, e)
    /\ \E g \in Groups : dir.gidNumber[g] = last.gid

\* C9 (as stated): of two allocations made one after the other, the second
\* returns a value strictly greater than the first.
C9_AllocationsIncrease == prevGid # 0 => lastGid > prevGid

\* C9 (amended): an allocation returns a value strictly greater than the
\* allocation before it whenever a group carrying the earlier value (or a
\* higher one) is in the directory when the later allocation is made.
C9_AllocationsIncreaseWhileGroupKept ==
    [][(/\ last'.gid # 0
        /\ lastGid # 0
        /\ \E g \in Groups : dir.gidNumber[g] >= lastGid)
       => last'.gid > lastGid]_vars

\* two allocations in a row, the group of the first still in the directory
C9_Witness ==
    /\ prevGid # 0
    /\ lastGid > prevGid
    /\ last.gid = lastGid
    /\ \E g \in Groups : dir.gidNumber[g] = prevGid

\* the run has been handed a gidNumber and has not yet sent the request
\* that creates its primary group
holdsUnusedGid(p) == proc[p].pc \in {"ou", "groupsOU", "primary"}

\* C10: nothing between GetNextGidNumber and CreateGroup keeps two
\* concurrent creates apart: whenever two runs each hold a gidNumber that no
\* group of the directory carries yet, they hold the same gidNumber.
C10_ConcurrentCreatesSameGid ==
    \A p \in Procs, q \in Procs :
        (/\ holdsUnusedGid(p)
         /\ holdsUnusedGid(q)
         /\ ~gidInUse(dir, proc[p].gid)
         /\ ~gidInUse(dir, proc[q].gid))
        => proc[p].gid = proc[q].gid

\* two runs creating different entities have both sent the request for a
\* primary group with the same gidNumber, and the directory holds both
C10_Witness ==
    \E p \in Procs, q \in Procs :
        /\ proc[p].e # proc[q].e
        /\ proc[p].pc = "admins"
        /\ proc[q].pc = "admins"
        /\ proc[p].gid = proc[q].gid
        /\ dir.gidNumber[getPIRGDN(proc[p].e)] = proc[p].gid
        /\ dir.gidNumber[getPIRGDN(proc[q].e)] = proc[p].gid

\* C11: a create of an entity whose primary group exists returns success
\* and leaves the directory as it was (no gidNumber handed out, no object
\* added, every membership and both rosters unchanged), whoever is named
\* as PI.
C11_CreateExistingIsNoOp ==
    \A e \in Entities, u \in Users :
        DNExists(dir, getPIRGDN(e)) => PirgCreate(dir, e, u) = Ret(dir, "ok")

\* a create has just returned from an entity that has an owner and a second
\* member, without a gidNumber
C11_Witness ==
    /\ last.op = "Create"
    /\ last.res = "ok"
    /\ last.gid = 0
    /\ \E e \in Entities :
         /\ Cardinality(currentOwner(dir, e)) = 1
         /\ Cardinality(dir.member[getPIRGDN(e)]) = 2

\* the objects PirgCreate makes for the entity all exist and u is its PI
entityComplete(d, e, u) ==
    /\ d.ou[e]
    /\ d.groupsOU[e]
    /\ DNExists(d, getPIRGDN(e))
    /\ DNExists(d, getPIRGAdminsGroupDN(e))
    /\ DNExists(d, getPIRGPIGroupDN(e))
    /\ currentOwner(d, e) = {u}

\* C12: whatever step an earlier create of the entity stopped after, a
\* create that returns success while no other create is running leaves the
\* container, the sub-group container, the primary, admins and pi groups in
\* place and the PI assigned.
C12_RepeatCreateRepairs ==
    \A p \in Procs :
        (/\ proc[p].pc = "done"
         /\ proc[p].res = "ok"
         /\ \A q \in Procs \ {p} : proc[q].pc = "idle")
        => entityComplete(dir, proc[p].e, proc[p].u)

Range(s) == {s[i] : i \in DOMAIN s}

\* C13: a create that succeeds for an entity that did not exist leaves the
\* entity in PirgList, the named user as the PI PirgGetPIUsername returns,
\* and that user as the one admin and the one member listed.
C13_CreateExample ==
    \A e \in Entities, u \in Users :
        LET r == PirgCreate(dir, e, u)
        IN  (~DNExists(dir, getPIRGDN(e)) /\ r.res = "ok") =>
              /\ e \in Range(PirgList(r.dir))
              /\ PirgGetPIUsername(r.dir, e) = [err |-> "ok", name |-> u]
              /\ PirgListAdminUsernames(r.dir, e) = <<u>>
              /\ PirgListMemberUsernames(r.dir, e) = <<u>>

\* create("acme", "alice") has just succeeded next to another entity
C13_Witness ==
    /\ last.op = "Create"
    /\ last.res = "ok"
    /\ dir.gidNumber[getPIRGDN("acme")] = last.gid
    /\ PirgList(dir) = <<"acme", "beta">>
    /\ PirgGetPIUsername(dir, "acme").name = "alice"

C15_DeleteOnlyOwnerLeft ==
    \A e \in Entities :
        (DNExists(dir, getPIRGDN(e)) /\ PirgDelete(dir, e).res = "ok")
        => dir.member[getPIRGDN(e)] \subseteq currentOwner(dir, e)

\* C16: after a delete that succeeds, the entity's container, its Groups
\* container, its primary, admins and pi groups and all its sub-groups are
\* gone, PirgExists is false and PirgList does not hold the name.
C16_DeleteRemovesEverything ==
    \A e \in Entities :
        LET r == PirgDelete(dir, e)
        IN  r.res = "ok" =>
              /\ ~r.dir.ou[e]
              /\ ~r.dir.groupsOU[e]
              /\ \A g \in PirgGroups : g[1] = e => ~DNExists(r.dir, g)
              /\ ~PirgExists(r.dir, e)
              /\ e \notin Range(PirgList(r.dir))

\* a delete has just removed one of two entities: the one that is left was
\* created when the other held its groups
C16_Witness ==
    /\ last.op = "Delete"
    /\ last.res = "ok"
    /\ \E e \in Entities :
         /\ PirgList(dir) = <<e>>
         /\ dir.gidNumber[getPIRGDN(e)] > dir.foreignGid + 3
         /\ dir.gidNumber[getPIRGDN(e)] > MinGid + 2

\* C17: add-member for a user who is already in the entity's primary group
\* returns success and leaves every group and both rosters as they were.
C17_AddExistingMemberIsNoOp ==
    /\ \A e \in PirgNames, u \in Users :
         UserInGroup(dir, getPIRGDN(e), u) => PirgAddMember(dir, e, u) = Ret(dir, "ok")
    /\ \A e \in SoftwareNames, u \in Users :
         UserInGroup(dir, getSWDN(e), u) => SoftwareAddMember(dir, e, u) = Ret(dir, "ok")

\* an add-member has just returned for the PI, the only member, who is in
\* no roster
C17_Witness ==
    /\ last.op = "AddMember"
    /\ last.res = "ok"
    /\ \E e \in PirgNames :
         /\ Cardinality(dir.member[getPIRGDN(e)]) = 1
         /\ dir.member[getPIRGDN(e)] = currentOwner(dir, e)
    /\ dir.topLevelUsers = {}

\* C18: a remove-member that succeeds for a member who is not the PI leaves
\* the user out of the entity's primary group, of its admins group and of
\* every sub-group of the entity.
C18_RemoveMemberCascades ==
    \A e \in Entities, u \in Users :
        LET r == PirgRemoveMember(dir, e, u)
        IN  (/\ UserInGroup(dir, getPIRGDN(e), u)
             /\ ~UserInGroup(dir, getPIRGPIGroupDN(e), u)
             /\ r.res = "ok")
            => \A g \in Groups :
                 (g[1] = e /\ g[2] \in {"primary", "admins"} \cup Subs)
                 => ~UserInGroup(r.dir, g, u)

\* a remove-member has just succeeded on an entity with the sub-groups s1
\* and s2: the PI is left in both, the removed user in no group and no roster
C18_Witness ==
    /\ last.op = "RemoveMember"
    /\ last.res = "ok"
    /\ \E e \in Entities, u \in Users :
         /\ \A s \in Subs : currentOwner(dir, e) \subseteq dir.member[getPIRGSubgroupDN(e, s)]
         /\ \A s \in Subs : DNExists(dir, getPIRGSubgroupDN(e, s))
         /\ currentOwner(dir, e) = Users \ {u}
         /\ \A g \in Groups : ~UserInGroup(dir, g, u)
         /\ u \notin dir.topLevelUsers \cup dir.topLevelAdmins

\* the roster after a removal of u, who leaves it unless stillThere
demoted(roster, u, stillThere) == IF stillThere THEN roster ELSE roster \ {u}

\* PirgRemoveMember takes u out of the users roster exactly when u is then a
\* member of no other PIRG, and out of the admins roster exactly when u is
\* then an admin of no other PIRG
pirgRemoveMemberDemotes(E) ==
    \A e \in E, u \in Users :
        LET r == PirgRemoveMember(dir, e, u)
        IN  (UserInGroup(dir, getPIRGDN(e), u) /\ r.res = "ok") =>
              /\ r.dir.topLevelUsers =
                   demoted(dir.topLevelUsers, u,
                           \E f \in E \ {e} : UserInGroup(r.dir, getPIRGDN(f), u))
              /\ r.dir.topLevelAdmins =
                   demoted(dir.topLevelAdmins, u,
                           \E f \in E \ {e} : UserInGroup(r.dir, getPIRGAdminsGroupDN(f), u))

\* the same for SoftwareRemoveMember and the users roster
softwareRemoveMemberDemotes(E) ==
    \A e \in E, u \in Users :
        LET r == SoftwareRemoveMember(dir, e, u)
        IN  (UserInGroup(dir, getSWDN(e), u) /\ r.res = "ok") =>
              r.dir.topLevelUsers =
                demoted(dir.topLevelUsers, u,
                        \E f \in E \ {e} : UserInGroup(r.dir, getSWDN(f), u))

\* C19: for every entity type, a remove-member that succeeds takes the user
\* out of the users roster exactly when the user is then a member of no
\* other entity of the type, and out of the admins roster exactly when the
\* user is then an admin of no other entity of the type.
C19_RemoveMemberDemotesEveryType ==
    pirgRemoveMemberDemotes(PirgNames) /\ softwareRemoveMemberDemotes(SoftwareNames)


\* C20: in every state the commands reach, the users roster holds exactly
\* the users who are in the primary group of at least one entity, and the
\* admins roster exactly the users who are in the admins group of at least
\* one entity.
C20_RostersAreDerivedUnions ==
    /\ dir.topLevelUsers =
         {u \in Users : \E e \in Entities : UserInGroup(dir, getPIRGDN(e), u)}
    /\ dir.topLevelAdmins =
         {u \in Users : \E e \in Entities : UserInGroup(dir, getPIRGAdminsGroupDN(e), u)}

\* C21: add-admin of a user who is not in the primary group of the (existing)
\* entity fails with the not-a-member error, and the failed call changes
\* neither the entity's admins group nor the admins roster.
C21_AddAdminNeedsMembership ==
    \A e \in Entities, u \in Users :
        LET r == PirgAddAdmin(dir, e, u)
        IN  (findPIRGDN(dir, e) /\ ~UserInGroup(dir, getPIRGDN(e), u)) =>
              /\ r.res = "ErrNotAMember"
              /\ r.dir.member[getPIRGAdminsGroupDN(e)] = dir.member[getPIRGAdminsGroupDN(e)]
              /\ r.dir.topLevelAdmins = dir.topLevelAdmins

\* an add-admin has just been refused for a user who is not a member of an
\* entity that has members and an admin
C21_Witness ==
    /\ last.op = "AddAdmin"
    /\ last.res = "ErrNotAMember"
    /\ \E e \in Entities, u \in Users :
         /\ findPIRGDN(dir, e)
         /\ ~UserInGroup(dir, getPIRGDN(e), u)
         /\ dir.member[getPIRGAdminsGroupDN(e)] # {}
         /\ u \notin dir.topLevelAdmins

\* C22: whenever add-admin returns success the user is in the entity's
\* admins group and in the admins roster, and an add-admin of a user who is
\* already an admin succeeds and changes nothing.
C22_AddAdminReachesRoster ==
    \A e \in Entities, u \in Users :
        LET r == PirgAddAdmin(dir, e, u)
        IN  /\ r.res = "ok" =>
                 /\ UserInGroup(r.dir, getPIRGAdminsGroupDN(e), u)
                 /\ u \in r.dir.topLevelAdmins
            /\ (findPIRGDN(dir, e) /\ UserInGroup(dir, getPIRGDN(e), u)
                  /\ UserInGroup(dir, getPIRGAdminsGroupDN(e), u))
                 => r = Ret(dir, "ok")

\* C23: a remove-admin that takes the user out of the entity's admins group
\* takes the user out of the admins roster exactly when the user is an admin
\* of no other entity.
C23_RemoveAdminDemotes ==
    \A e \in Entities, u \in Users :
        LET r == PirgRemoveAdmin(dir, e, u)
        IN  (UserInGroup(dir, getPIRGAdminsGroupDN(e), u) /\ r.res = "ok") =>
              /\ ~UserInGroup(r.dir, getPIRGAdminsGroupDN(e), u)
              /\ r.dir.topLevelAdmins =
                   demoted(dir.topLevelAdmins, u,
                           \E f \in Entities \ {e} :
                               UserInGroup(r.dir, getPIRGAdminsGroupDN(f), u))

\* a remove-admin has just left the user in the roster, as an admin of
\* another entity
C23_Witness ==
    /\ last.op = "RemoveAdmin"
    /\ last.res = "ok"
    /\ \E e \in Entities, u \in Users :
         /\ UserInGroup(dir, getPIRGDN(e), u)
         /\ ~UserInGroup(dir, getPIRGAdminsGroupDN(e), u)
         /\ \E f \in Entities \ {e} : UserInGroup(dir, getPIRGAdminsGroupDN(f), u)
         /\ u \in dir.topLevelAdmins

\* C24: a removal whose target is already absent succeeds and leaves the
\* whole directory unchanged: remove-member of a user who is not in the
\* primary group of the entity, remove-admin of a user who is not in its
\* admins group, and delete of an entity that does not exist.
C24_AbsentTargetIsNoOp ==
    \A e \in Entities :
        /\ ~findPIRGDN(dir, e) => PirgDelete(dir, e) = Ret(dir, "ok")
        /\ \A u \in Users :
             /\ (findPIRGDN(dir, e) /\ ~UserInGroup(dir, getPIRGDN(e), u))
                  => PirgRemoveMember(dir, e, u) = Ret(dir, "ok")
             /\ (findPIRGDN(dir, e) /\ ~UserInGroup(dir, getPIRGAdminsGroupDN(e), u))
                  => PirgRemoveAdmin(dir, e, u) = Ret(dir, "ok")

\* a removal has just succeeded on an entity of which some user, still in
\* both rosters, is neither a member nor an admin
C24_Witness ==
    /\ last.op \in {"RemoveMember", "RemoveAdmin"}
    /\ last.res = "ok"
    /\ \E e \in Entities, u \in Users :
         /\ findPIRGDN(dir, e)
         /\ ~UserInGroup(dir, getPIRGDN(e), u)
         /\ ~UserInGroup(dir, getPIRGAdminsGroupDN(e), u)
         /\ u \in dir.topLevelUsers \cap dir.topLevelAdmins

\* C25: a sub-group add-member of a user who is not in the primary group of
\* the parent entity fails with the not-a-member error and leaves the
\* sub-group (and the rest of the directory) unchanged; for a user who is
\* already in the sub-group it succeeds without any change.
C25_SubgroupAddMemberNeedsMembership ==
    \A e \in Entities, s \in Subs, u \in Users :
        LET r == PirgSubgroupAddMember(dir, e, s, u)
        IN  /\ (findPIRGDN(dir, e) /\ ~UserInGroup(dir, getPIRGDN(e), u))
                 => r = Ret(dir, "ErrNotAMember")
            /\ UserInGroup(dir, getPIRGSubgroupDN(e, s), u) => r = Ret(dir, "ok")

\* a sub-group add-member has just been refused for a non-member of the
\* parent entity, whose sub-group exists and has a member
C25_Witness ==
    /\ last.op = "SubgroupAddMember"
    /\ last.res = "ErrNotAMember"
    /\ \E e \in Entities, s \in Subs, u \in Users :
         /\ ~UserInGroup(dir, getPIRGDN(e), u)
         /\ DNExists(dir, getPIRGSubgroupDN(e, s))
         /\ dir.member[getPIRGSubgroupDN(e, s)] # {}

\* C26: for every valid short name s (one or more of the characters
\* [A-Za-z0-9_-]) the short name of the primary group name of s is s.
C26_ShortNameRoundTrip ==
    validShortName(nm.arg) =>
        /\ ConvertPIRGGroupNametoShortNameText(getPIRGFullNameText(nm.arg)) = nm.arg
        /\ last.op = "ShortName" => nm.short = nm.arg

\* the short name of a primary group name has just been read back, for a
\* valid short name of more than one character that holds a '-' or a '_'
C26_Witness ==
    /\ last.op = "ShortName"
    /\ validShortName(nm.arg)
    /\ Len(nm.arg) >= 2
    /\ \E i \in 1..Len(nm.arg) : nm.arg[i] \in {"-", "_"}
    /\ nm.cn = getPIRGFullNameText(nm.arg)
    /\ nm.short = nm.arg

\* C27: a short name that holds a '.' is rejected: no create of an entity or
\* of a sub-group succeeds with such a name, and no group name is derived
\* from it.
C27_DottedNameRejected ==
    (\E i \in 1..Len(nm.arg) : nm.arg[i] = ".") =>
        /\ ~(last.op \in {"Create", "SubgroupCreate"} /\ last.res = "ok")
        /\ nm.cn = <<>>

\* the place of a name in the lexical order
lexIndex(x) == CHOOSE i \in 1..Len(Lexical) : Lexical[i] = x

\* C28: PirgList returns exactly the short names of the entities that exist,
\* each once, never the name of an admins group, a pi group or a sub-group,
\* in ascending lexical order.
C28_ListIsSortedShortNames ==
    LET l == PirgList(dir)
    IN  /\ Range(l) = {e \in Entities : findPIRGDN(dir, e)}
        /\ Range(l) \cap ({"admins", "pi"} \cup Subs) = {}
        /\ \A i, j \in 1..Len(l) : i < j => lexIndex(l[i]) < lexIndex(l[j])

\* both entities are listed, the one created second first, and one of them
\* has a sub-group
C28_Witness ==
    /\ PirgList(dir) = <<"acme", "beta">>
    /\ dir.gidNumber[getPIRGDN("beta")] < dir.gidNumber[getPIRGDN("acme")]
    /\ \E e \in Entities, s \in Subs : DNExists(dir, getPIRGSubgroupDN(e, s))

\* C29: for an entity whose pi group exists, get-pi fails with the no-owner
\* error when the pi group is empty, fails with the ambiguous-owner error
\* when it has more than one member, and returns the one member otherwise.
C29_GetOwnerByCount ==
    \A e \in Entities :
        LET r == PirgGetPIUsername(dir, e)
            piMembers == dir.member[getPIRGPIGroupDN(e)]
        IN  DNExists(dir, getPIRGPIGroupDN(e)) =>
              /\ piMembers = {} => r = [err |-> "ErrNoPI", name |-> ""]
              /\ Cardinality(piMembers) > 1 => r = [err |-> "ErrMultiplePIs", name |-> ""]
              /\ Cardinality(piMembers) = 1 => r.err = "ok" /\ piMembers = {r.name}

\* get-pi has just refused to name one of two members of the pi group
C29_Witness ==
    /\ last.op = "GetPIUsername"
    /\ last.res = "ErrMultiplePIs"
    /\ Cardinality(dir.member[getPIRGPIGroupDN("acme")]) = 2

\* C30: a set-pi that is run again after it failed at one of its three add
\* requests (the old owner is then already out of the pi group) ends in the
\* directory that one uninterrupted set-pi leaves: the user is the only
\* member of the pi group and a member of the primary and admins groups.
C30_SetPIRetryCompletes ==
    /\ \A e \in Entities, u \in Users, k \in 1..3 :
         LET stopped == PirgSetPIStopped(dir, e, u, k)
             again == PirgSetPI(stopped.dir, e, u)
             once == PirgSetPI(dir, e, u)
         IN  once.res = "ok" =>
               /\ again.res = "ok"
               /\ again.dir = once.dir
               /\ currentOwner(again.dir, e) = {u}
               /\ UserInGroup(again.dir, getPIRGDN(e), u)
               /\ UserInGroup(again.dir, getPIRGAdminsGroupDN(e), u)
    /\ (last.op = "SetPIRetry" /\ last.res = "ok") =>
         /\ currentOwner(dir, proc["p1"].e) = {proc["p1"].u}
         /\ UserInGroup(dir, getPIRGDN(proc["p1"].e), proc["p1"].u)
         /\ UserInGroup(dir, getPIRGAdminsGroupDN(proc["p1"].e), proc["p1"].u)

\* the set-pi that was run again has just made the user, who was not a
\* member before, the owner in place of the other user
C30_Witness ==
    /\ last.op = "SetPIRetry"
    /\ last.res = "ok"
    /\ currentOwner(dir, proc["p1"].e) = {proc["p1"].u}
    /\ dir.member[getPIRGDN(proc["p1"].e)] = Users
    /\ proc["p1"].u \notin dir.topLevelUsers


\* ------------------------------------------------------------ the process
\* C31: every command ends the process with exit status 0 when the
\* operation succeeds and with exit status 1 when the operation returns an
\* error ("NotFound" and "AlreadyExists" are the messages main prints
\* without calling the operation).
C31_ExitStatusFollowsResult ==
    /\ last.res = "ok" => cli.exit = 0
    /\ last.res \notin {"ok", "NotFound", "AlreadyExists"} => cli.exit = 1

\* C32: the connection opened at the start of the process is closed on
\* every way out of the process, the failing ones included.
C32_ConnectionClosedOnEveryExit == cli.closed

\* C33: a command that names an entity, user or sub-group that is absent
\* prints a not-found message or does nothing: it does not end with a failure
\* exit status and it leaves the directory as it was.
C33_AbsentNameIsHarmless ==
    [][last'.res \in {"NotFound", "ErrUserNotFound"}
          => (cli'.exit = 0 /\ dir' = dir)]_vars


\* ------------------------------------------------- membership containment
\* C34: after any sequence of successful operations every member of an
\* entity's admins group is a member of the entity's primary group.
C34_AdminsAreMembers ==
    \A e \in Entities :
        dir.member[getPIRGAdminsGroupDN(e)] \subseteq dir.member[getPIRGDN(e)]

\* C35: after any sequence of successful operations every member of a
\* sub-group is a member of the primary group of the sub-group's entity.
C35_SubgroupMembersAreMembers ==
    \A e \in Entities : \A s \in Subs :
        dir.member[getPIRGSubgroupDN(e, s)] \subseteq dir.member[getPIRGDN(e)]


C34_Witness ==
    /\ last.op = "AddAdmin"
    /\ last.res = "ok"
    /\ Cardinality(dir.member[getPIRGAdminsGroupDN("acme")]) = 2
    /\ Cardinality(dir.member[getPIRGPIGroupDN("acme")]) = 1

C35_Witness ==
    /\ last.op = "RemoveMember"
    /\ last.res = "ok"
    /\ dir.member[getPIRGSubgroupDN("acme", "s1")] # {}
    /\ Cardinality(dir.member[getPIRGDN("acme")]) = 1


\* --------------------------------------------- remove-member beside set-pi
\* C36: when a remove-member of u from e and a set-pi of e to u that ran
\* side by side have both finished, whoever is in the pi group of e is a
\* member of the primary group and of the admins group of e.
C36_OwnerStaysMemberAndAdmin ==
    (proc["p1"].pc = "done" /\ proc["p2"].pc = "done")
        => \A o \in dir.member[getPIRGPIGroupDN("acme")] :
               /\ UserInGroup(dir, getPIRGDN("acme"), o)
               /\ UserInGroup(dir, getPIRGAdminsGroupDN("acme"), o)


\* ------------------------------------------ remove-member that is run again
\* C37: when a remove-member of u from e failed after it had removed u from
\* the primary group, the same remove-member run again completes it: it
\* succeeds, and u is then in no sub-group of e and not in the admins group
\* of e.
C37_RemoveMemberRetryCompletes ==
    (last.op = "RemoveMemberRetry" /\ last.res = "ok") =>
        /\ \A s \in Subs :
             ~UserInGroup(dir, getPIRGSubgroupDN(proc["p1"].e, s), proc["p1"].u)
        /\ ~UserInGroup(dir, getPIRGAdminsGroupDN(proc["p1"].e), proc["p1"].u)


\* ------------------------------------------------------ what set-pi changes
\* C38: a successful set-pi of e to u changes the pi group of e, and the
\* membership of u in the primary and admins groups of e, and nothing else:
\* the previous owner stays in the primary and admins groups, no other
\* membership in any group changes, and the rosters stay as they are.
C38_SetPIChangesOnlyOwnerAndUser ==
    \A e \in Entities, u \in Users :
        LET r == PirgSetPI(dir, e, u)
            mine == {getPIRGDN(e), getPIRGAdminsGroupDN(e)}
        IN  r.res = "ok" =>
              /\ \A g \in Groups \ {getPIRGPIGroupDN(e)} :
                   /\ r.dir.member[g] \ {u} = dir.member[g] \ {u}
                   /\ g \notin mine => r.dir.member[g] = dir.member[g]
              /\ \A g \in mine : dir.member[g] \subseteq r.dir.member[g]
              /\ r.dir.topLevelUsers = dir.topLevelUsers
              /\ r.dir.topLevelAdmins = dir.topLevelAdmins
              /\ r.dir.gidNumber = dir.gidNumber
              /\ r.dir.ou = dir.ou
              /\ r.dir.groupsOU = dir.groupsOU

\* set-pi has just made the other user the owner, and the previous owner is
\* still a member and an admin
C38_Witness ==
    /\ last.op = "SetPI"
    /\ last.res = "ok"
    /\ dir.member[getPIRGPIGroupDN("acme")] = {"bob"}
    /\ dir.member[getPIRGDN("acme")] = Users
    /\ dir.member[getPIRGAdminsGroupDN("acme")] = Users
    /\ dir.member[getPIRGSubgroupDN("acme", "s1")] = {"alice"}


\* ------------------------------------------------------- names that collide
\* C39: the names derived from well-formed short names never collide: the
\* name of a sub-group of an entity differs from the names of the primary,
\* admins and pi groups of that entity and of every other entity.
C39_DerivedNamesNeverCollide ==
    (last.op = "SubgroupCreate" /\ validShortName(nm.arg)) =>
        \A e \in {t \in Texts : validShortName(t)} :
            /\ nm.cn # getPIRGFullNameText(e)
            /\ nm.cn # getPIRGFullNameText(e) \o <<".", "a", "d", "m", "i", "n", "s">>
            /\ nm.cn # getPIRGPIGroupFullNameText(e)


\* ------------------------------------------------ one entity at a time
\* C40: a command on the entity e1 (add-member, remove-member, add-admin,
\* remove-admin, set-pi, the sub-group commands, delete), whether it succeeds
\* or not, leaves the memberships, the gidNumbers and the existence of the
\* groups and OUs of every other entity e2 as they are.
C40_OtherEntityUntouched ==
    LET sameEntity(d1, d2, e) ==
            /\ \A g \in PirgGroups :
                 g[1] = e => /\ d2.member[g] = d1.member[g]
                             /\ d2.gidNumber[g] = d1.gidNumber[g]
            /\ d2.ou[e] = d1.ou[e]
            /\ d2.groupsOU[e] = d1.groupsOU[e]
    IN
    \A e1 \in Entities, e2 \in Entities, u \in Users, s \in Subs :
        e1 # e2 =>
            /\ sameEntity(dir, PirgAddMember(dir, e1, u).dir, e2)
            /\ sameEntity(dir, PirgRemoveMember(dir, e1, u).dir, e2)
            /\ sameEntity(dir, PirgAddAdmin(dir, e1, u).dir, e2)
            /\ sameEntity(dir, PirgRemoveAdmin(dir, e1, u).dir, e2)
            /\ sameEntity(dir, PirgSetPI(dir, e1, u).dir, e2)
            /\ sameEntity(dir, PirgSubgroupCreate(dir, e1, s).dir, e2)
            /\ sameEntity(dir, PirgSubgroupDelete(dir, e1, s).dir, e2)
            /\ sameEntity(dir, PirgSubgroupAddMember(dir, e1, s, u).dir, e2)
            /\ sameEntity(dir, PirgSubgroupRemoveMember(dir, e1, s, u).dir, e2)
            /\ sameEntity(dir, PirgDelete(dir, e1).dir, e2)

\* acme has just been deleted, and beta is there with its sub-group and its
\* member
C40_Witness ==
    /\ last.op = "Delete"
    /\ last.res = "ok"
    /\ ~DNExists(dir, getPIRGDN("acme"))
    /\ dir.gidNumber[getPIRGDN("beta")] > dir.foreignGid + 3
    /\ DNExists(dir, getPIRGSubgroupDN("beta", "s1"))
    /\ dir.member[getPIRGSubgroupDN("beta", "s1")] = {"alice"}
    /\ dir.member[getPIRGPIGroupDN("beta")] = {"alice"}

====
